---- MODULE Spec2Model ----
(***************************************************************************)
(* A model of png_parser.py: the chunk container codec (read_chunks,       *)
(* write_chunks), the filter engine (paeth_predictor, undo_filter,         *)
(* apply_filter), the stride helpers and the scanline walks                *)
(* (apply_png_filters, remove_png_filters, parse_IDAT).                    *)
(*                                                                         *)
(* Bytes are integers 0..255.  A Python value that may be None is a        *)
(* sequence of length 0 (None) or 1 (the value).  A call's outcome is a    *)
(* record: Ok(v) for a returned value, Raise(e) for a raised exception.    *)
(***************************************************************************)
EXTENDS Integers, Sequences, FiniteSets, TLC

VARIABLES
    \* paeth_predictor called on its own
    left, up, up_left, predicted,
    \* apply_filter / undo_filter called on one scanline
    ft, S, P, bpp, filtered, restored, fpc,
    \* write_chunks / read_chunks: the chunks given to write_chunks, the
    \* file's bytes, how the file was changed after writing, and read_chunks'
    \* position in the file, its local list, its place and its outcome
    C, file, tampered, pos, chunks, rpc, out,
    \* the image descriptor (image_info, or parse_IDAT's arguments)
    width, height, color_type, bit_depth,
    \* outcomes of get_channels_from_color_type, get_bytes_per_pixel and
    \* get_bytes_per_scanline called on their own
    channels_out, bpp_out, bps_out,
    \* apply_png_filters: its pixel buffer, its filter_type argument
    pixel_data, filter_arg,
    \* the scanline walk: the function walking (remove_png_filters or
    \* parse_IDAT), its buffer (data, or decompressed), the strides it
    \* computed, its locals, the rows it has passed, its place and outcome
    fn, data, strides, pixels, prev_scanline, offset, row, wpc, wout

varsPaeth == <<left, up, up_left, predicted>>
varsFilter == <<ft, S, P, bpp, filtered, restored, fpc>>
varsCont == <<C, file, tampered, pos, chunks, rpc, out>>
varsInfo == <<width, height, color_type, bit_depth>>
varsChan == <<channels_out, bpp_out, bps_out>>
varsWalk == <<pixel_data, filter_arg, fn, data, strides, pixels, prev_scanline,
              offset, row, wpc, wout>>
varsPlane == <<varsInfo, varsChan, varsWalk>>
vars == <<varsPaeth, varsFilter, varsCont, varsPlane>>

----------------------------------------------------------------------------
(* Bounds of the model *)

\* longest scanline handed to apply_filter / undo_filter on its own
MaxLen == 3
\* largest byte stride handed to apply_filter / undo_filter on its own
MaxBpp == 2
\* largest filter-type value tried (0..4 are known, the rest unknown)
MaxFilterType == 6
\* paeth_predictor is tried on 0..MaxPaethLow and on PaethExtra
MaxPaethLow == 6
\* most chunks handed to write_chunks
MaxChunks == 2
\* most bytes appended to a written file
MaxTail == 5
\* widest and tallest image, in pixels
MaxWidth == 2
MaxHeight == 2
\* largest color-type value handed to the stride helpers (0, 2, 3, 4 and 6
\* are supported)
MaxColorType == 7
\* pixel buffers are generated from the seeds 0..MaxSeed
MaxSeed == 2

\* byte values the scanlines are drawn from: both ends of the range and the
\* middle, so that sums and differences wrap around 256
ByteSample == {0, 100, 255}
PaethExtra == {10, 15, 20, 127, 128, 254, 255}
\* filter-type values tried besides 0..MaxFilterType
FilterTypeExtra == {-1, 255}
PaethSample == (0..MaxPaethLow) \cup PaethExtra

----------------------------------------------------------------------------
(* Python values *)

None == <<>>
Some(x) == <<x>>
\* `if prev_scanline`: None and the empty buffer are both false
Truthy(p) == p # None /\ Len(p[1]) > 0
\* 0-based indexing of a buffer
At(buf, i) == buf[i + 1]

Ok(v) == [ok |-> TRUE, val |-> v, err |-> ""]
Raise(e) == [ok |-> FALSE, val |-> <<>>, err |-> e]
NotCalled == [ok |-> FALSE, val |-> <<>>, err |-> "not called"]

abs(x) == IF x < 0 THEN -x ELSE x

\* bytearray(n): n zero bytes
bytearray(n) == [i \in 1..n |-> 0]

\* x & 0xFF on a Python integer (negative ones included)
And0xFF(x) == x % 256

\* all sequences over s of length n
RECURSIVE SeqsOfLen(_, _)
SeqsOfLen(s, n) ==
    IF n = 0 THEN {<<>>}
    ELSE {Append(q, x) : q \in SeqsOfLen(s, n - 1), x \in s}

----------------------------------------------------------------------------
(* Filter engine *)

paeth_predictor_strict(a, b, c) ==
    LET p == a + b - c
        pa == abs(p - a)
        pb == abs(p - b)
        pc == abs(p - c)
    IN  IF pa < pb /\ pa < pc THEN a
        ELSE IF pb < pc THEN b
        ELSE c

paeth_predictor(a, b, c) ==
    LET p == a + b - c
        pa == abs(p - a)
        pb == abs(p - b)
        pc == abs(p - c)
    IN  IF pa <= pb /\ pa <= pc THEN a
        ELSE IF pb <= pc THEN b
        ELSE c

\* `prev_scanline[i] if prev_scanline else 0`
UpOf(prev, i) ==
    IF Truthy(prev) THEN At(prev[1], i) ELSE 0

\* `prev_scanline[i - bytes_per_pixel] if (prev_scanline and i >= bytes_per_pixel) else 0`
UpLeftOf(prev, i, bytes_per_pixel) ==
    IF Truthy(prev) /\ i >= bytes_per_pixel
    THEN At(prev[1], i - bytes_per_pixel) ELSE 0

\* `buf[i - bytes_per_pixel] if i >= bytes_per_pixel else 0`
LeftOf(buf, i, bytes_per_pixel) ==
    IF i >= bytes_per_pixel THEN At(buf, i - bytes_per_pixel) ELSE 0

\* the value undo_filter stores in result[i], for filter types 1..4; left is
\* read from result, the bytes already reconstructed
undo_byte(filter_type, scanline, prev, bytes_per_pixel, result, i) ==
    CASE filter_type = 1 ->
            And0xFF(At(scanline, i) + LeftOf(result, i, bytes_per_pixel))
      [] filter_type = 2 ->
            And0xFF(At(scanline, i) + UpOf(prev, i))
      [] filter_type = 3 ->
            And0xFF(At(scanline, i)
                    + ((LeftOf(result, i, bytes_per_pixel) + UpOf(prev, i)) \div 2))
      [] filter_type = 4 ->
            And0xFF(At(scanline, i)
                    + paeth_predictor(LeftOf(result, i, bytes_per_pixel),
                                      UpOf(prev, i),
                                      UpLeftOf(prev, i, bytes_per_pixel)))

\* `for i in range(len(scanline))` of undo_filter, from index i on
RECURSIVE undo_loop(_, _, _, _, _, _)
undo_loop(filter_type, scanline, prev, bytes_per_pixel, result, i) ==
    IF i >= Len(scanline) THEN result
    ELSE undo_loop(filter_type, scanline, prev, bytes_per_pixel,
                   [result EXCEPT ![i + 1] =
                        undo_byte(filter_type, scanline, prev,
                                  bytes_per_pixel, result, i)],
                   i + 1)

undo_filter_lenient(filter_type, scanline, prev, bytes_per_pixel) ==
    IF filter_type \in 1..4
    THEN Ok(undo_loop(filter_type, scanline, prev, bytes_per_pixel,
                      bytearray(Len(scanline)), 0))
    ELSE Ok(scanline)

undo_filter(filter_type, scanline, prev, bytes_per_pixel) ==
    IF filter_type = 0 THEN Ok(scanline)
    ELSE IF filter_type \in 1..4
    THEN Ok(undo_loop(filter_type, scanline, prev, bytes_per_pixel,
                      bytearray(Len(scanline)), 0))
    ELSE Raise("Unknown filter type")

\* the value apply_filter stores in result[i], for filter types 1..4; left is
\* read from scanline, the unfiltered input
apply_byte_left_of_result(filter_type, scanline, prev, bytes_per_pixel, result, i) ==
    CASE filter_type = 1 ->
            And0xFF(At(scanline, i) - LeftOf(result, i, bytes_per_pixel))
      [] filter_type = 2 ->
            And0xFF(At(scanline, i) - UpOf(prev, i))
      [] filter_type = 3 ->
            And0xFF(At(scanline, i)
                    - ((LeftOf(result, i, bytes_per_pixel) + UpOf(prev, i)) \div 2))
      [] filter_type = 4 ->
            And0xFF(At(scanline, i)
                    - paeth_predictor(LeftOf(result, i, bytes_per_pixel),
                                      UpOf(prev, i),
                                      UpLeftOf(prev, i, bytes_per_pixel)))

apply_byte(filter_type, scanline, prev, bytes_per_pixel, result, i) ==
    CASE filter_type = 1 ->
            And0xFF(At(scanline, i) - LeftOf(scanline, i, bytes_per_pixel))
      [] filter_type = 2 ->
            And0xFF(At(scanline, i) - UpOf(prev, i))
      [] filter_type = 3 ->
            And0xFF(At(scanline, i)
                    - ((LeftOf(scanline, i, bytes_per_pixel) + UpOf(prev, i)) \div 2))
      [] filter_type = 4 ->
            And0xFF(At(scanline, i)
                    - paeth_predictor(LeftOf(scanline, i, bytes_per_pixel),
                                      UpOf(prev, i),
                                      UpLeftOf(prev, i, bytes_per_pixel)))

\* `for i in range(len(scanline))` of apply_filter, from index i on
RECURSIVE apply_loop(_, _, _, _, _, _)
apply_loop(filter_type, scanline, prev, bytes_per_pixel, result, i) ==
    IF i >= Len(scanline) THEN result
    ELSE apply_loop(filter_type, scanline, prev, bytes_per_pixel,
                    [result EXCEPT ![i + 1] =
                         apply_byte(filter_type, scanline, prev,
                                    bytes_per_pixel, result, i)],
                    i + 1)

apply_filter(filter_type, scanline, prev, bytes_per_pixel) ==
    IF filter_type = 0 THEN Ok(scanline)
    ELSE IF filter_type \in 1..4
    THEN Ok(apply_loop(filter_type, scanline, prev, bytes_per_pixel,
                       bytearray(Len(scanline)), 0))
    ELSE Raise("Unknown filter type")

----------------------------------------------------------------------------
(* paeth_predictor on its own: SpecPaeth *)

IdlePaeth ==
    /\ left = 0
    /\ up = 0
    /\ up_left = 0
    /\ predicted = None

InitPaethArgs ==
    /\ left \in PaethSample
    /\ up \in PaethSample
    /\ up_left \in PaethSample
    /\ predicted = None

CallPaeth ==
    /\ predicted = None
    /\ predicted' = Some(paeth_predictor(left, up, up_left))
    /\ UNCHANGED <<left, up, up_left>>

----------------------------------------------------------------------------
(* apply_filter and undo_filter on one scanline: SpecFilter *)

IdleFilter ==
    /\ ft = 0
    /\ S = <<>>
    /\ P = None
    /\ bpp = 1
    /\ filtered = NotCalled
    /\ restored = NotCalled
    /\ fpc = "idle"

\* scanline lengths: the multiples of the stride up to MaxLen
InitFilterArgs ==
    /\ ft \in (0..MaxFilterType) \cup FilterTypeExtra
    /\ bpp \in 1..MaxBpp
    /\ \E k \in 0..MaxLen :
          /\ bpp * k <= MaxLen
          /\ S \in SeqsOfLen(ByteSample, bpp * k)
          /\ P \in {None} \cup {Some(q) : q \in SeqsOfLen(ByteSample, bpp * k)}
    /\ filtered = NotCalled
    /\ restored = NotCalled
    /\ fpc = "start"

\* filtered = apply_filter(ft, S, P, bpp)
CallApplyFilter ==
    /\ fpc = "start"
    /\ filtered' = apply_filter(ft, S, P, bpp)
    /\ fpc' = "applied"
    /\ UNCHANGED <<ft, S, P, bpp, restored>>

\* restored = undo_filter(ft, filtered, P, bpp), when apply_filter returned
CallUndoFilter ==
    /\ fpc = "applied"
    /\ filtered.ok
    /\ restored' = undo_filter(ft, filtered.val, P, bpp)
    /\ fpc' = "undone"
    /\ UNCHANGED <<ft, S, P, bpp, filtered>>

\* restored = undo_filter(ft, S, P, bpp): S taken as a filtered scanline
CallUndoFilterRaw ==
    /\ fpc = "start"
    /\ restored' = undo_filter(ft, S, P, bpp)
    /\ fpc' = "undone_raw"
    /\ UNCHANGED <<ft, S, P, bpp, filtered>>


----------------------------------------------------------------------------
(* Chunk container codec *)

\* b'\x89PNG\r\n\x1a\n'
PNG_SIGNATURE == <<137, 80, 78, 71, 13, 10, 26, 10>>

\* a str is its code points: "IHDR", "IDAT", "IEND"
IHDR == <<73, 72, 68, 82>>
IDAT == <<73, 68, 65, 84>>
IEND == <<73, 69, 78, 68>>

\* PngChunk(length, chunk_type, data, crc)
PngChunk(length, chunk_type, chunk_data, crc) ==
    [length |-> length, type |-> chunk_type, data |-> chunk_data, crc |-> crc]

\* x.to_bytes(4, "big"), for 0 <= x < 2^32
to_bytes_4_little(x) ==
    <<x % 256, (x \div 256) % 256, (x \div 65536) % 256, (x \div 16777216) % 256>>

to_bytes_4_big(x) ==
    <<(x \div 16777216) % 256, (x \div 65536) % 256, (x \div 256) % 256, x % 256>>

\* struct.unpack(">I", b)[0]: struct.error unless b holds exactly 4 bytes
unpack_I_padded(b) ==
    LET q == b \o [i \in 1..(4 - Len(b)) |-> 0]
    IN  Ok(q[1] * 16777216 + q[2] * 65536 + q[3] * 256 + q[4])

unpack_I(b) ==
    IF Len(b) # 4 THEN Raise("struct.error")
    ELSE Ok(b[1] * 16777216 + b[2] * 65536 + b[3] * 256 + b[4])

\* str.encode("ascii"): the code points as bytes (all below 128 here)
encode_ascii(str) == str

\* bytes.decode("ascii"): UnicodeDecodeError on a byte above 127
decode_ascii(b) ==
    IF \E i \in 1..Len(b) : b[i] > 127 THEN Raise("UnicodeDecodeError")
    ELSE Ok(b)

\* f.read(n) at position p: the next n bytes, fewer at the end of the file
f_read(f, p, n) ==
    SubSeq(f, p + 1, IF p + n <= Len(f) THEN p + n ELSE Len(f))

\* the four writes of write_chunks for one chunk
chunk_bytes(chunk) ==
    to_bytes_4_big(chunk.length) \o encode_ascii(chunk.type)
        \o chunk.data \o to_bytes_4_big(chunk.crc)

\* the bytes write_chunks writes: the signature, then every chunk in order
RECURSIVE write_chunks(_)
write_chunks(cs) ==
    IF cs = <<>> THEN PNG_SIGNATURE
    ELSE write_chunks(SubSeq(cs, 1, Len(cs) - 1)) \o chunk_bytes(cs[Len(cs)])

\* `if chunk_type == "IEND": break`
breaks_never(chunk_type) == FALSE

breaks_after(chunk_type) == chunk_type = IEND

\* one pass through the `while True` body of read_chunks at position p with
\* the list cs: where it ends (pc), the new position and list, and the
\* outcome when the function returns or raises
read_chunks_body(f, p, cs) ==
    LET length_bytes == f_read(f, p, 4)
        p1 == p + Len(length_bytes)
        length == unpack_I(length_bytes)
        type_bytes == f_read(f, p1, 4)
        p2 == p1 + Len(type_bytes)
        chunk_type == decode_ascii(type_bytes)
        chunk_data == f_read(f, p2, length.val)
        p3 == p2 + Len(chunk_data)
        crc_bytes == f_read(f, p3, 4)
        p4 == p3 + Len(crc_bytes)
        crc == unpack_I(crc_bytes)
        chunk == PngChunk(length.val, chunk_type.val, chunk_data, crc.val)
    IN  IF Len(length_bytes) = 0
        THEN [pc |-> "returned", pos |-> p1, chunks |-> cs, out |-> Ok(cs)]
        ELSE IF ~length.ok
        THEN [pc |-> "raised", pos |-> p1, chunks |-> cs, out |-> Raise(length.err)]
        ELSE IF ~chunk_type.ok
        THEN [pc |-> "raised", pos |-> p2, chunks |-> cs, out |-> Raise(chunk_type.err)]
        ELSE IF ~crc.ok
        THEN [pc |-> "raised", pos |-> p4, chunks |-> cs, out |-> Raise(crc.err)]
        ELSE IF breaks_after(chunk_type.val)
        THEN [pc |-> "returned", pos |-> p4, chunks |-> Append(cs, chunk),
              out |-> Ok(Append(cs, chunk))]
        ELSE [pc |-> "loop", pos |-> p4, chunks |-> Append(cs, chunk),
              out |-> NotCalled]

\* payloads and trailing values of the chunks handed to write_chunks (u32
\* values, all below 2^31)
PayloadSample ==
    { [data |-> <<>>, crc |-> 2130706433],
      [data |-> <<7>>, crc |-> 16909060],
      [data |-> <<0, 200>>, crc |-> 1] }

\* chunks handed to write_chunks: every type with every payload and
\* length = len(data), and every type with a length one above len(data)
ChunkSample ==
    {PngChunk(Len(pl.data), t, pl.data, pl.crc) :
        t \in {IHDR, IDAT, IEND}, pl \in PayloadSample}
    \cup {PngChunk(2, t, <<7>>, 16909060) : t \in {IHDR, IDAT, IEND}}

\* last byte of what is appended to a written file, after zero bytes
TailBytes == {0, 200}

IdleCont ==
    /\ C = <<>>
    /\ file = <<>>
    /\ tampered = "none"
    /\ pos = 0
    /\ chunks = <<>>
    /\ rpc = "idle"
    /\ out = NotCalled

InitContArgs ==
    /\ \E n \in 0..MaxChunks : C \in SeqsOfLen(ChunkSample, n)
    /\ file = <<>>
    /\ tampered = "none"
    /\ pos = 0
    /\ chunks = <<>>
    /\ rpc = "new"
    /\ out = NotCalled

\* write_chunks(filename, C)
CallWriteChunks ==
    /\ rpc = "new"
    /\ file' = write_chunks(C)
    /\ rpc' = "written"
    /\ UNCHANGED <<C, tampered, pos, chunks, out>>

\* the written file loses its end: it is cut inside its last chunk (inside
\* the signature when there is no chunk)
Truncate ==
    /\ rpc = "written"
    /\ tampered = "none"
    /\ \E n \in 0..(Len(file) - 1) :
          /\ n >= Len(write_chunks(SubSeq(C, 1, Len(C) - 1))) \/ C = <<>>
          /\ file' = SubSeq(file, 1, n)
    /\ tampered' = "truncated"
    /\ UNCHANGED <<C, pos, chunks, rpc, out>>

\* bytes are appended to the written file
AppendTail ==
    /\ rpc = "written"
    /\ tampered = "none"
    /\ \E k \in 1..MaxTail, b \in TailBytes :
          file' = file \o [i \in 1..k |-> IF i = k THEN b ELSE 0]
    /\ tampered' = "extended"
    /\ UNCHANGED <<C, pos, chunks, rpc, out>>

\* read_chunks(file_path) up to its loop: the signature check
ReadSignature ==
    /\ rpc = "written"
    /\ LET signature == f_read(file, 0, 8)
       IN  /\ pos' = Len(signature)
           /\ IF signature # PNG_SIGNATURE
              THEN rpc' = "raised" /\ out' = Raise("Not a valid PNG file.")
              ELSE rpc' = "loop" /\ out' = out
    /\ chunks' = <<>>
    /\ UNCHANGED <<C, file, tampered>>

\* one pass through the loop of read_chunks
ReadChunk ==
    /\ rpc = "loop"
    /\ LET r == read_chunks_body(file, pos, chunks)
       IN  /\ rpc' = r.pc
           /\ pos' = r.pos
           /\ chunks' = r.chunks
           /\ out' = r.out
    /\ UNCHANGED <<C, file, tampered>>


----------------------------------------------------------------------------
(* Strides *)

get_channels_from_color_type_gray_alpha_1(ct) ==
    CASE ct = 0 -> Ok(1)
      [] ct = 2 -> Ok(3)
      [] ct = 3 -> Ok(1)
      [] ct = 4 -> Ok(1)
      [] ct = 6 -> Ok(4)
      [] OTHER -> Raise("Unsupported color type")

get_channels_from_color_type(ct) ==
    CASE ct = 0 -> Ok(1)
      [] ct = 2 -> Ok(3)
      [] ct = 3 -> Ok(1)
      [] ct = 4 -> Ok(2)
      [] ct = 6 -> Ok(4)
      [] OTHER -> Raise("Unsupported color type")

get_bytes_per_scanline(w, ct, bd) ==
    LET channels == get_channels_from_color_type(ct)
    IN  IF ~channels.ok THEN channels
        ELSE Ok((w * channels.val * bd + 7) \div 8)

get_bytes_per_pixel(ct, bd) ==
    LET channels == get_channels_from_color_type(ct)
    IN  IF ~channels.ok THEN channels
        ELSE Ok((channels.val * bd + 7) \div 8)

\* the strides remove_png_filters computes before its loop
remove_png_filters_strides(w, ct, bd) ==
    LET bytes_per_pixel == get_bytes_per_pixel(ct, bd)
        bytes_per_scanline == get_bytes_per_scanline(w, ct, bd)
    IN  IF ~bytes_per_pixel.ok THEN bytes_per_pixel
        ELSE IF ~bytes_per_scanline.ok THEN bytes_per_scanline
        ELSE Ok([bytes_per_pixel |-> bytes_per_pixel.val,
                 bytes_per_scanline |-> bytes_per_scanline.val])

\* the strides parse_IDAT computes: channels and bytes_per_scanline before
\* its loop, the stride it hands to undo_filter inside it
parse_IDAT_strides(w, ct, bd) ==
    LET channels == get_channels_from_color_type(ct)
    IN  IF ~channels.ok THEN channels
        ELSE Ok([bytes_per_pixel |-> (channels.val * bd + 7) \div 8,
                 bytes_per_scanline |-> (w * channels.val * bd + 7) \div 8])

----------------------------------------------------------------------------
(* Scanline walks *)

\* buf[start:end] for 0 <= start <= end: clipped to the buffer
py_slice(buf, start, end) ==
    SubSeq(buf, start + 1, IF end <= Len(buf) THEN end ELSE Len(buf))

\* b''.join(rows)
RECURSIVE join(_)
join(rows) ==
    IF rows = <<>> THEN <<>> ELSE rows[1] \o join(Tail(rows))

\* `prev_scanline = scanline` of apply_png_filters: the next row's context
\* is the raw row, not the filtered one
apply_next_prev_filtered(scanline, filtered_scanline) == Some(filtered_scanline)

apply_next_prev(scanline, filtered_scanline) == Some(scanline)

\* `for y in range(height)` of apply_png_filters, from row y on
RECURSIVE apply_rows(_, _, _, _, _, _, _)
apply_rows(pd, h, bytes_per_pixel, bytes_per_scanline, filter_type, y, acc) ==
    IF y >= h THEN Ok(acc.filtered_data)
    ELSE LET start == y * bytes_per_scanline
             end == start + bytes_per_scanline
             scanline == py_slice(pd, start, end)
             filtered_scanline ==
                 apply_filter(filter_type, scanline, acc.prev_scanline, bytes_per_pixel)
         IN  IF ~filtered_scanline.ok THEN filtered_scanline
             ELSE apply_rows(pd, h, bytes_per_pixel, bytes_per_scanline, filter_type,
                     y + 1,
                     [filtered_data |-> acc.filtered_data \o <<filter_type>>
                                            \o filtered_scanline.val,
                      prev_scanline |-> apply_next_prev(scanline, filtered_scanline.val)])

apply_png_filters(pd, w, h, ct, bd, filter_type) ==
    LET bytes_per_pixel == get_bytes_per_pixel(ct, bd)
        bytes_per_scanline == get_bytes_per_scanline(w, ct, bd)
    IN  IF ~bytes_per_pixel.ok THEN bytes_per_pixel
        ELSE IF ~bytes_per_scanline.ok THEN bytes_per_scanline
        ELSE apply_rows(pd, h, bytes_per_pixel.val, bytes_per_scanline.val,
                        filter_type, 0,
                        [filtered_data |-> <<>>, prev_scanline |-> None])

\* `if offset + 1 + bytes_per_scanline > len(data)`
walk_truncated_lenient(off, bytes_per_scanline, buf) == off + 1 > Len(buf)

walk_truncated(off, bytes_per_scanline, buf) ==
    off + 1 + bytes_per_scanline > Len(buf)

\* `prev_scanline = unfiltered`: the next row's context is the
\* reconstructed row
walk_next_prev_filtered(scanline, unfiltered) == Some(scanline)

walk_next_prev(scanline, unfiltered) == Some(unfiltered)

\* what parse_IDAT does after its loop: the pixel bytes joined, then the
\* dtype chosen by bit depth; the array and the statistics computed from it
\* are kept as the joined bytes
parse_IDAT_finish(rows, bd) ==
    IF bd = 8 \/ bd = 16 THEN Ok(join(rows))
    ELSE Raise("Unsupported bit depth")

\* the walking functions
Walkers == {"remove_png_filters", "parse_IDAT"}

\* supported color types and the bit depths the walks are tried on
SupportedColorTypes == {0, 2, 3, 4, 6}
BitDepths == {1, 2, 4, 8, 16}
WalkBitDepths == {8, 16}

\* byte i of the pixel buffer generated from a seed
PixelByte(seed, i) == (seed * 101 + i * (2 * seed + 59) + i * i * 31) % 256

\* the filter byte of row r in a generated stream: an arithmetic
\* progression modulo 6 from f0, 5 being an unknown filter type
FilterByteOfRow(f0, fstep, r) == (f0 + r * fstep) % 6

\* a generated stream of h rows of bps bytes, each behind its filter byte
RECURSIVE GenStream(_, _, _, _, _)
GenStream(seed, f0, fstep, h, bps) ==
    IF h = 0 THEN <<>>
    ELSE GenStream(seed, f0, fstep, h - 1, bps)
            \o <<FilterByteOfRow(f0, fstep, h - 1)>>
            \o [i \in 1..bps |-> PixelByte(seed, (h - 1) * bps + i)]

\* the spec's example: an 8-bit grayscale 2x2 image, rows (0, [10, 20])
\* and (2, [5, 5])
ExampleStream == <<0, 10, 20, 2, 5, 5>>

\* lengths a stream of h rows of bps bytes is cut to: every row boundary,
\* one byte before it and one byte after it
CutLengths(h, bps) ==
    {n \in 0..(h * (1 + bps)) :
        \E k \in 0..h, d \in {-1, 0, 1} : n = k * (1 + bps) + d}

IdleInfo ==
    /\ width = 0
    /\ height = 0
    /\ color_type = 0
    /\ bit_depth = 8

IdleChan ==
    /\ channels_out = NotCalled
    /\ bpp_out = NotCalled
    /\ bps_out = NotCalled

IdleWalk ==
    /\ pixel_data = <<>>
    /\ filter_arg = 0
    /\ fn = "none"
    /\ data = <<>>
    /\ strides = NotCalled
    /\ pixels = <<>>
    /\ prev_scanline = None
    /\ offset = 0
    /\ row = 0
    /\ wpc = "idle"
    /\ wout = NotCalled

IdlePlane == IdleInfo /\ IdleChan /\ IdleWalk

WalkLocalsInit ==
    /\ fn = "none"
    /\ strides = NotCalled
    /\ pixels = <<>>
    /\ prev_scanline = None
    /\ offset = 0
    /\ row = 0
    /\ wout = NotCalled

\* a descriptor with any color type up to MaxColorType, for the stride
\* helpers and the start of a walk
InitStrideArgs ==
    /\ width \in 0..MaxWidth
    /\ height \in 0..1
    /\ color_type \in (-1)..MaxColorType
    /\ bit_depth \in BitDepths
    /\ IdleChan
    /\ pixel_data = <<>>
    /\ filter_arg = 0
    /\ data = <<>>
    /\ wpc = "ready"
    /\ WalkLocalsInit

\* a pixel buffer of exactly height * bytes_per_scanline bytes to encode
InitEncodeArgs ==
    /\ width \in 1..MaxWidth
    /\ height \in 0..MaxHeight
    /\ color_type \in SupportedColorTypes
    /\ bit_depth \in WalkBitDepths
    /\ IdleChan
    /\ \E seed \in 0..MaxSeed :
          pixel_data = [i \in 1..(height * get_bytes_per_scanline(
                                    width, color_type, bit_depth).val)
                            |-> PixelByte(seed, i)]
    /\ filter_arg \in 0..MaxFilterType
    /\ data = <<>>
    /\ wpc = "new"
    /\ WalkLocalsInit

\* a buffer to decode: a generated stream, or the spec's example, whole or
\* cut short
InitDecodeArgs ==
    /\ width \in 1..MaxWidth
    /\ height \in 0..MaxHeight
    /\ color_type \in SupportedColorTypes
    /\ bit_depth \in WalkBitDepths
    /\ IdleChan
    /\ pixel_data = <<>>
    /\ filter_arg = 0
    /\ LET bps == get_bytes_per_scanline(width, color_type, bit_depth).val
       IN  \E full \in {GenStream(seed, f0, fstep, height, bps) :
                            seed \in 0..MaxSeed, f0 \in 0..5, fstep \in 0..5}
                        \cup (IF Len(ExampleStream) = height * (1 + bps)
                              THEN {ExampleStream} ELSE {}) :
             \E n \in CutLengths(height, bps) : data = SubSeq(full, 1, n)
    /\ wpc = "ready"
    /\ WalkLocalsInit

\* get_channels_from_color_type(color_type)
CallGetChannels ==
    /\ channels_out = NotCalled
    /\ channels_out' = get_channels_from_color_type(color_type)
    /\ UNCHANGED <<varsInfo, bpp_out, bps_out, varsWalk>>

\* get_bytes_per_pixel(color_type, bit_depth)
CallGetBytesPerPixel ==
    /\ bpp_out = NotCalled
    /\ bpp_out' = get_bytes_per_pixel(color_type, bit_depth)
    /\ UNCHANGED <<varsInfo, channels_out, bps_out, varsWalk>>

\* get_bytes_per_scanline(width, color_type, bit_depth)
CallGetBytesPerScanline ==
    /\ bps_out = NotCalled
    /\ bps_out' = get_bytes_per_scanline(width, color_type, bit_depth)
    /\ UNCHANGED <<varsInfo, channels_out, bpp_out, varsWalk>>

\* data = apply_png_filters(pixel_data, image_info, filter_arg)
CallApplyPngFilters ==
    /\ wpc = "new"
    /\ LET r == apply_png_filters(pixel_data, width, height, color_type,
                                  bit_depth, filter_arg)
       IN  IF r.ok
           THEN data' = r.val /\ wpc' = "ready" /\ wout' = wout
           ELSE data' = data /\ wpc' = "raised" /\ wout' = r
    /\ UNCHANGED <<varsInfo, varsChan, pixel_data, filter_arg, fn, strides,
                   pixels, prev_scanline, offset, row>>

\* remove_png_filters(data, image_info) or parse_IDAT(idat_data, ...) up to
\* its loop; data is the buffer zlib.decompress returned to parse_IDAT
WalkBegin ==
    /\ wpc = "ready"
    /\ \E f \in Walkers :
          /\ fn' = f
          /\ strides' = IF f = "parse_IDAT"
                        THEN parse_IDAT_strides(width, color_type, bit_depth)
                        ELSE remove_png_filters_strides(width, color_type, bit_depth)
    /\ IF strides'.ok
       THEN wpc' = "loop" /\ wout' = wout
       ELSE wpc' = "raised" /\ wout' = strides'
    /\ pixels' = <<>>
    /\ prev_scanline' = None
    /\ offset' = 0
    /\ row' = 0
    /\ UNCHANGED <<varsInfo, varsChan, pixel_data, filter_arg, data>>

\* one pass through `for _ in range(height)` of the walk
WalkRow ==
    /\ wpc = "loop"
    /\ row < height
    /\ LET bytes_per_scanline == strides.val.bytes_per_scanline
           bytes_per_pixel == strides.val.bytes_per_pixel
       IN  IF walk_truncated(offset, bytes_per_scanline, data)
           THEN /\ wpc' = "raised"
                /\ wout' = Raise("Unexpected end of IDAT data")
                /\ UNCHANGED <<pixels, prev_scanline, offset, row>>
           ELSE LET filter_type == At(data, offset)
                    scanline == py_slice(data, offset + 1,
                                         offset + 1 + bytes_per_scanline)
                    unfiltered == undo_filter(filter_type, scanline,
                                              prev_scanline, bytes_per_pixel)
                IN  IF ~unfiltered.ok
                    THEN /\ wpc' = "raised"
                         /\ wout' = unfiltered
                         /\ offset' = offset + 1 + bytes_per_scanline
                         /\ UNCHANGED <<pixels, prev_scanline, row>>
                    ELSE /\ pixels' = Append(pixels, unfiltered.val)
                         /\ prev_scanline' = walk_next_prev(scanline, unfiltered.val)
                         /\ offset' = offset + 1 + bytes_per_scanline
                         /\ row' = row + 1
                         /\ UNCHANGED <<wpc, wout>>
    /\ UNCHANGED <<varsInfo, varsChan, pixel_data, filter_arg, fn, data, strides>>

\* the walk after its loop: remove_png_filters returns the joined rows,
\* parse_IDAT goes on to shape them
WalkReturn ==
    /\ wpc = "loop"
    /\ row = height
    /\ wout' = IF fn = "parse_IDAT" THEN parse_IDAT_finish(pixels, bit_depth)
               ELSE Ok(join(pixels))
    /\ wpc' = IF wout'.ok THEN "returned" ELSE "raised"
    /\ UNCHANGED <<varsInfo, varsChan, pixel_data, filter_arg, fn, data, strides,
                   pixels, prev_scanline, offset, row>>

----------------------------------------------------------------------------
(* Specifications *)

\* paeth_predictor on sampled arguments
InitPaeth == InitPaethArgs /\ IdleFilter /\ IdleCont /\ IdlePlane
NextPaeth == CallPaeth /\ UNCHANGED <<varsFilter, varsCont, varsPlane>>
SpecPaeth == InitPaeth /\ [][NextPaeth]_vars

\* apply_filter and undo_filter on one scanline
InitFilter == InitFilterArgs /\ IdlePaeth /\ IdleCont /\ IdlePlane
NextFilter ==
    \/ CallApplyFilter /\ UNCHANGED <<varsPaeth, varsCont, varsPlane>>
    \/ CallUndoFilter /\ UNCHANGED <<varsPaeth, varsCont, varsPlane>>
    \/ CallUndoFilterRaw /\ UNCHANGED <<varsPaeth, varsCont, varsPlane>>
SpecFilter == InitFilter /\ [][NextFilter]_vars

\* write_chunks, then read_chunks of the file, whole, cut or extended
InitContainer == InitContArgs /\ IdlePaeth /\ IdleFilter /\ IdlePlane
NextContainer ==
    \/ CallWriteChunks /\ UNCHANGED <<varsPaeth, varsFilter, varsPlane>>
    \/ Truncate /\ UNCHANGED <<varsPaeth, varsFilter, varsPlane>>
    \/ AppendTail /\ UNCHANGED <<varsPaeth, varsFilter, varsPlane>>
    \/ ReadSignature /\ UNCHANGED <<varsPaeth, varsFilter, varsPlane>>
    \/ ReadChunk /\ UNCHANGED <<varsPaeth, varsFilter, varsPlane>>
SpecContainer == InitContainer /\ [][NextContainer]_vars

\* the stride helpers and the start of a walk, on any color type
InitStrides == InitStrideArgs /\ IdlePaeth /\ IdleFilter /\ IdleCont
NextStrides ==
    \/ CallGetChannels /\ UNCHANGED <<varsPaeth, varsFilter, varsCont>>
    \/ CallGetBytesPerPixel /\ UNCHANGED <<varsPaeth, varsFilter, varsCont>>
    \/ CallGetBytesPerScanline /\ UNCHANGED <<varsPaeth, varsFilter, varsCont>>
    \/ WalkBegin /\ UNCHANGED <<varsPaeth, varsFilter, varsCont>>
    \/ WalkRow /\ UNCHANGED <<varsPaeth, varsFilter, varsCont>>
    \/ WalkReturn /\ UNCHANGED <<varsPaeth, varsFilter, varsCont>>
SpecStrides == InitStrides /\ [][NextStrides]_vars

\* apply_png_filters, then a walk over what it returned
InitPlane == InitEncodeArgs /\ IdlePaeth /\ IdleFilter /\ IdleCont
NextPlane ==
    \/ CallApplyPngFilters /\ UNCHANGED <<varsPaeth, varsFilter, varsCont>>
    \/ WalkBegin /\ UNCHANGED <<varsPaeth, varsFilter, varsCont>>
    \/ WalkRow /\ UNCHANGED <<varsPaeth, varsFilter, varsCont>>
    \/ WalkReturn /\ UNCHANGED <<varsPaeth, varsFilter, varsCont>>
SpecPlane == InitPlane /\ [][NextPlane]_vars

\* a walk over a given buffer
InitWalk == InitDecodeArgs /\ IdlePaeth /\ IdleFilter /\ IdleCont
NextWalk ==
    \/ WalkBegin /\ UNCHANGED <<varsPaeth, varsFilter, varsCont>>
    \/ WalkRow /\ UNCHANGED <<varsPaeth, varsFilter, varsCont>>
    \/ WalkReturn /\ UNCHANGED <<varsPaeth, varsFilter, varsCont>>
SpecWalk == InitWalk /\ [][NextWalk]_vars

\* the filter engine called on one scanline, or by a walk over a buffer
InitFilterAndWalk == InitFilter \/ InitWalk
NextFilterAndWalk == NextFilter \/ NextWalk
SpecFilterAndWalk == InitFilterAndWalk /\ [][NextFilterAndWalk]_vars

----------------------------------------------------------------------------
(* Claims about the filter engine *)

\* C1: filter round trip: for every filter type 0..4, stride >= 1, scanline S
\* whose length is a multiple of the stride and previous scanline P (None or
\* as long as S), undo_filter(ft, apply_filter(ft, S, P, bpp), P, bpp)
\* returns S byte for byte.
C1_FilterRoundTrip ==
    (fpc = "undone" /\ ft \in 0..4) =>
        (restored.ok /\ restored.val = S)

\* a round trip through the Paeth filter with a previous scanline and a left
\* neighbour, whose filtered bytes differ from the scanline
C1_Witness ==
    /\ fpc = "undone"
    /\ ft = 4
    /\ P # None
    /\ Len(S) > bpp
    /\ filtered.val # S
    /\ restored.val = S

\* C6: paeth_predictor returns the one of left, up, up_left closest to
\* p = left + up - up_left, ties broken in the order left, up, up_left; on
\* (10, 20, 15) it returns 15.
C6_Paeth ==
    predicted # None =>
        LET p == left + up - up_left
            da == abs(p - left)
            db == abs(p - up)
            dc == abs(p - up_left)
            r == predicted[1]
        IN  /\ (da <= db /\ da <= dc) => r = left
            /\ (~(da <= db /\ da <= dc) /\ db <= dc) => r = up
            /\ (~(da <= db /\ da <= dc) /\ ~(db <= dc)) => r = up_left
            /\ r \in {left, up, up_left}
            /\ \A d \in {da, db, dc} : abs(p - r) <= d
            /\ (left = 10 /\ up = 20 /\ up_left = 15) => r = 15

\* the spec's example has been computed
C6_Witness ==
    /\ left = 10
    /\ up = 20
    /\ up_left = 15
    /\ predicted = Some(15)

----------------------------------------------------------------------------
(* Claims about the chunk container codec *)

\* every chunk of cs has length = len(data)
Consistent(cs) == \A i \in 1..Len(cs) : cs[i].length = Len(cs[i].data)

\* no chunk of cs before its last one is an IEND chunk
NoEarlyIEND(cs) == \A i \in 1..(Len(cs) - 1) : cs[i].type # IEND

\* read_chunks has returned or raised
ReadEnded == rpc \in {"returned", "raised"}

\* the chunk layout of the stream f from position p on, by the length
\* fields alone: whether the stream ends inside a chunk, that is, before
\* the 12 + length bytes of a chunk that has begun (chunks after an IEND
\* chunk are not part of the stream)
RECURSIVE EndsInsideChunk(_, _)
EndsInsideChunk(f, p) ==
    IF p = Len(f) THEN FALSE
    ELSE IF Len(f) - p < 4 THEN TRUE
    ELSE LET length == f[p + 1] * 16777216 + f[p + 2] * 65536
                        + f[p + 3] * 256 + f[p + 4]
         IN  IF Len(f) - p < 12 + length THEN TRUE
             ELSE IF SubSeq(f, p + 5, p + 8) = IEND THEN FALSE
             ELSE EndsInsideChunk(f, p + 12 + length)

\* C3 as stated: for any chunk sequence C whose chunks all have
\* length = len(data), read_chunks of the bytes written by write_chunks(C)
\* returns a sequence equal to C.
C3_AsStated ==
    (ReadEnded /\ tampered = "none" /\ Consistent(C)) => out = Ok(C)

\* C3 as amended: the same, for the sequences C in which no chunk before
\* the last one has type IEND.
C3_ContainerRoundTrip ==
    (ReadEnded /\ tampered = "none" /\ Consistent(C) /\ NoEarlyIEND(C))
        => out = Ok(C)

\* two chunks, the first with a payload, written and read back
C3_Witness ==
    /\ rpc = "returned"
    /\ tampered = "none"
    /\ Len(C) = 2
    /\ Consistent(C)
    /\ C[1].data = <<0, 200>>
    /\ C[2].type = IEND
    /\ out = Ok(C)

\* C4: when the stream ends inside a chunk (a partial length, type tag,
\* payload or trailing value), read_chunks raises; it never returns a
\* sequence holding a chunk whose payload is shorter than its declared
\* length.
C4_Truncation ==
    /\ (ReadEnded /\ Len(file) >= 8 /\ SubSeq(file, 1, 8) = PNG_SIGNATURE
            /\ EndsInsideChunk(file, 8))
          => (~out.ok /\ rpc = "raised")
    /\ out.ok => \A i \in 1..Len(out.val) :
                    Len(out.val[i].data) = out.val[i].length

\* the last chunk declares 2 payload bytes, the file ends after the first
\* of them, and read_chunks has raised
C4_Witness ==
    /\ rpc = "raised"
    /\ tampered = "truncated"
    /\ Len(C) = 2
    /\ Consistent(C)
    /\ C[2].length = 2
    /\ Len(file) = Len(write_chunks(C)) - 5
    /\ out = Raise("struct.error")

\* C5: after a valid signature read_chunks appends the chunks in stream
\* order and returns right after appending the first IEND chunk: the last
\* chunk of the result is that IEND, none before it is, and no byte after
\* it is read; without an IEND chunk it returns only at the end of the
\* input, at a chunk boundary, with every chunk read.
C5_ReadOrder ==
    rpc \in {"loop", "returned"} =>
        /\ write_chunks(chunks) = SubSeq(file, 1, pos)
        /\ NoEarlyIEND(chunks)
        /\ (chunks # <<>> /\ chunks[Len(chunks)].type = IEND) => rpc = "returned"
        /\ (rpc = "returned" /\ (chunks = <<>> \/ chunks[Len(chunks)].type # IEND))
              => pos = Len(file)
        /\ rpc = "returned" => out = Ok(chunks)

\* read_chunks has returned two chunks, the second an IEND chunk, and bytes
\* follow it in the file
C5_Witness ==
    /\ rpc = "returned"
    /\ tampered = "extended"
    /\ Len(chunks) = 2
    /\ chunks[2].type = IEND
    /\ pos < Len(file)
    /\ out = Ok(chunks)

\* read_chunks has returned at the end of an input without an IEND chunk
C5_WitnessNoIEND ==
    /\ rpc = "returned"
    /\ Len(chunks) = 2
    /\ chunks[2].type # IEND
    /\ pos = Len(file)

----------------------------------------------------------------------------
(* Claims about the strides and the scanline walks *)

\* the channel table of the data model
ChannelTable == (0 :> 1) @@ (2 :> 3) @@ (3 :> 1) @@ (4 :> 2) @@ (6 :> 4)

\* n = ceil(bits / 8)
IsCeilDiv8(n, bits) == 8 * n >= bits /\ 8 * (n - 1) < bits

\* a walk has returned or raised
WalkEnded == wpc \in {"returned", "raised"} /\ fn \in Walkers

\* the length of a filter byte and its scanline in the walk's buffer
RowLen == 1 + strides.val.bytes_per_scanline

\* the filter byte and the filtered bytes of row r (from 0) of the buffer
FilterByteAt(r) == data[r * RowLen + 1]
FilteredRowAt(r) == SubSeq(data, r * RowLen + 2, (r + 1) * RowLen)

\* the rows (from 0) the buffer holds completely, and those among the
\* image's rows whose filter byte it holds
CompleteRows == {r \in 0..(height - 1) : (r + 1) * RowLen <= Len(data)}
BegunRows == {r \in 0..(height - 1) : r * RowLen < Len(data)}

\* C2: plane round trip: for color types 0, 2, 3, 4, 6, bit depths 8 and
\* 16, a fixed filter type 0..4 and a pixel buffer M of exactly
\* height * bytes_per_scanline bytes,
\* remove_png_filters(apply_png_filters(M, descriptor, ft), descriptor)
\* returns M.
C2_PlaneRoundTrip ==
    (WalkEnded /\ fn = "remove_png_filters" /\ filter_arg \in 0..4)
        => (wpc = "returned" /\ wout = Ok(pixel_data))

\* a 2x2 16-bit RGBA image through the Paeth filter and back
C2_Witness ==
    /\ wpc = "returned"
    /\ fn = "remove_png_filters"
    /\ filter_arg = 4
    /\ width = 2
    /\ height = 2
    /\ color_type = 6
    /\ bit_depth = 16
    /\ Len(pixel_data) = 32
    /\ wout = Ok(pixel_data)

\* C7: get_channels_from_color_type returns 1, 3, 1, 2, 4 for the color
\* types 0, 2, 3, 4, 6 and raises for any other; get_bytes_per_pixel,
\* get_bytes_per_scanline and the walks compute their strides from that
\* table and raise with it.
C7_ChannelMapping ==
    LET supported == color_type \in DOMAIN ChannelTable
        unsupported == Raise("Unsupported color type")
    IN  /\ channels_out # NotCalled =>
              channels_out = IF supported THEN Ok(ChannelTable[color_type])
                             ELSE unsupported
        /\ bpp_out # NotCalled =>
              IF supported
              THEN bpp_out.ok
                   /\ IsCeilDiv8(bpp_out.val, ChannelTable[color_type] * bit_depth)
              ELSE bpp_out = unsupported
        /\ bps_out # NotCalled =>
              IF supported
              THEN bps_out.ok
                   /\ IsCeilDiv8(bps_out.val,
                                 width * ChannelTable[color_type] * bit_depth)
              ELSE bps_out = unsupported
        /\ fn \in Walkers =>
              IF supported
              THEN strides.ok
                   /\ IsCeilDiv8(strides.val.bytes_per_pixel,
                                 ChannelTable[color_type] * bit_depth)
                   /\ IsCeilDiv8(strides.val.bytes_per_scanline,
                                 width * ChannelTable[color_type] * bit_depth)
              ELSE wpc = "raised" /\ wout = unsupported

\* every helper and parse_IDAT have raised on color type 5
C7_Witness ==
    /\ color_type = 5
    /\ channels_out = Raise("Unsupported color type")
    /\ bpp_out = Raise("Unsupported color type")
    /\ bps_out = Raise("Unsupported color type")
    /\ fn = "parse_IDAT"
    /\ wpc = "raised"

\* every helper has returned on color type 4 with bit depth 16
C7_WitnessSupported ==
    /\ color_type = 4
    /\ bit_depth = 16
    /\ width = 2
    /\ channels_out = Ok(2)
    /\ bpp_out = Ok(4)
    /\ bps_out = Ok(8)
    /\ fn = "remove_png_filters"
    /\ strides.ok

\* C8 as stated: when the buffer holds fewer than
\* height * (1 + bytes_per_scanline) bytes, parse_IDAT and
\* remove_png_filters fail with 'Unexpected end of IDAT data'.
C8_AsStated ==
    (WalkEnded /\ Len(data) < height * RowLen)
        => wout = Raise("Unexpected end of IDAT data")

\* C8 as amended: on such a buffer both walks raise and return no pixel
\* data: 'Unexpected end of IDAT data' when every row the buffer holds
\* completely has a filter byte in 0..4, the unknown-filter-type error of
\* the first such row that has not.
C8_TruncatedPixelData ==
    (WalkEnded /\ Len(data) < height * RowLen) =>
        /\ wpc = "raised"
        /\ ~wout.ok
        /\ wout.val = <<>>
        /\ wout.err = IF \E r \in CompleteRows : FilterByteAt(r) \notin 0..4
                      THEN "Unknown filter type"
                      ELSE "Unexpected end of IDAT data"

\* a walk over two rows has reconstructed the first and raised on the
\* second, which the buffer holds one byte short
C8_Witness ==
    /\ wpc = "raised"
    /\ height = 2
    /\ Len(data) = 2 * RowLen - 1
    /\ Len(pixels) = 1
    /\ wout = Raise("Unexpected end of IDAT data")

\* C9: the walk passes the rows in order 0..height-1, unfilters each with
\* its own filter byte, hands row r > 0 the reconstructed row r-1 as
\* context (not its filtered bytes) and reconstructs row 0 as after a row
\* of zeros; rows (0, [10, 20]) and (2, [5, 5]) of an 8-bit grayscale 2x2
\* image give [[10, 20], [15, 25]].
C9_ScanlineContext ==
    (fn \in Walkers /\ strides.ok) =>
        /\ Len(pixels) = row
        /\ row <= height
        /\ offset \in {row * RowLen, (row + 1) * RowLen}
        /\ offset = (row + 1) * RowLen => wpc = "raised"
        /\ prev_scanline = IF row = 0 THEN None ELSE Some(pixels[row])
        /\ \A r \in 1..Len(pixels) :
              pixels[r] =
                undo_filter(FilterByteAt(r - 1), FilteredRowAt(r - 1),
                            IF r = 1
                            THEN Some([i \in 1..(RowLen - 1) |-> 0])
                            ELSE Some(pixels[r - 1]),
                            strides.val.bytes_per_pixel).val
        /\ wpc = "returned" => (row = height /\ wout = Ok(join(pixels)))
        /\ (wpc = "returned" /\ data = ExampleStream /\ width = 2 /\ height = 2
              /\ color_type = 0 /\ bit_depth = 8)
                => wout = Ok(<<10, 20, 15, 25>>)

\* the spec's example has been decoded
C9_Witness ==
    /\ wpc = "returned"
    /\ data = ExampleStream
    /\ width = 2
    /\ height = 2
    /\ color_type = 0
    /\ bit_depth = 8
    /\ pixels = <<(<<10, 20>>), (<<15, 25>>)>>
    /\ wout = Ok(<<10, 20, 15, 25>>)

\* C10: for every filter type outside 0..4 undo_filter and apply_filter
\* raise the unknown-filter-type error whatever the scanline, the previous
\* scanline and the stride; a walk that meets such a filter byte fails as
\* a whole and returns no pixel buffer.
C10_UnknownFilterType ==
    /\ (fpc = "applied" /\ ft \notin 0..4)
          => filtered = Raise("Unknown filter type")
    /\ (fpc = "undone_raw" /\ ft \notin 0..4)
          => restored = Raise("Unknown filter type")
    /\ (WalkEnded /\ strides.ok
            /\ \E r \in CompleteRows : FilterByteAt(r) \notin 0..4)
          => (wpc = "raised" /\ wout = Raise("Unknown filter type"))
    /\ (WalkEnded /\ strides.ok
            /\ \E r \in BegunRows : FilterByteAt(r) \notin 0..4)
          => (wpc = "raised" /\ ~wout.ok /\ wout.val = <<>>)

\* undo_filter has raised on filter type 5 with a scanline and a previous
\* scanline
C10_Witness ==
    /\ fpc = "undone_raw"
    /\ ft = 5
    /\ Len(S) = 2
    /\ P # None
    /\ restored = Raise("Unknown filter type")

\* a walk has reconstructed its first row and raised on the filter byte 5
\* of its second
C10_WitnessWalk ==
    /\ wpc = "raised"
    /\ height = 2
    /\ Len(data) = 2 * RowLen
    /\ Len(pixels) = 1
    /\ FilterByteAt(1) = 5
    /\ wout = Raise("Unknown filter type")

====
